---------------------------- MODULE Spec2Model ----------------------------
(***************************************************************************)
(* A model of the JSON5 decoding engine of src/src/de.rs: the decode       *)
(* cursor (Json5Deserializer), the scalar literal decoders (parse_bool,    *)
(* parse_string, parse_number, parse_hex), and the Seq, Map, Enum and      *)
(* Variant adapters, driven by an arbitrary caller (serde visitor/seed).   *)
(*                                                                         *)
(* A text is a sequence of one-character strings; a decoded String is a    *)
(* sequence of code points; a u32 is a pair of 16-bit limbs (the tool's    *)
(* integers are 32-bit signed, a u32 does not fit one); a finite f64 is    *)
(* its canonical decimal expansion.                                        *)
(***************************************************************************)
EXTENDS Integers, Sequences, FiniteSets, TLC

VARIABLES
    tree,     \* the parse tree of the input (never mutated)
    stack,    \* the live objects, innermost last: cursors and adapters
    ret,      \* what the last operation handed to its caller
    fault,    \* a panic has aborted the decode
    call,     \* history: the last operation and what it acted on
    decoded   \* history: the node whose content was decoded last

vars == <<tree, stack, ret, fault, call, decoded>>

(***************************************************************************)
(* Bounds of the model.                                                    *)
(***************************************************************************)
\* Longest run of hexadecimal digits after the 0x prefix of a number text.
MaxHexDigits == 9
\* Most children of an array and most members of an object.
MaxChildren == 2
\* Most components (characters and escapes) of a string node.
MaxComponents == 2

(***************************************************************************)
(* Program constants.                                                      *)
(***************************************************************************)
\* parse_hex returns a u32.
U32Bits == 32

Limb == 2 ^ (U32Bits \div 2)

None == [some |-> FALSE]
Some(x) == [some |-> TRUE, v |-> x]

\* A Rust call either returns a value or panics (unwrap, unreachable!).
Ok(x) == [ok |-> TRUE, v |-> x]
Panic == [ok |-> FALSE]

(***************************************************************************)
(* Characters.                                                             *)
(***************************************************************************)
Printable ==
    <<" ", "!", "\"", "#", "$", "%", "&", "'", "(", ")", "*", "+", ",", "-",
      ".", "/", "0", "1", "2", "3", "4", "5", "6", "7", "8", "9", ":", ";",
      "<", "=", ">", "?", "@", "A", "B", "C", "D", "E", "F", "G", "H", "I",
      "J", "K", "L", "M", "N", "O", "P", "Q", "R", "S", "T", "U", "V", "W",
      "X", "Y", "Z", "[", "\\", "]", "^", "_", "U+0060", "a", "b", "c", "d", "e",
      "f", "g", "h", "i", "j", "k", "l", "m", "n", "o", "p", "q", "r", "s",
      "t", "u", "v", "w", "x", "y", "z", "{", "|", "}", "~">>

IndexOf(s, c) == CHOOSE i \in 1..Len(s) : s[i] = c
Occurs(s, c) == \E i \in 1..Len(s) : s[i] = c

\* The code point of a (printable ASCII) character of the source text.
CodePoint(c) == 31 + IndexOf(Printable, c)

DecChars == <<"0", "1", "2", "3", "4", "5", "6", "7", "8", "9">>
LowerHex == DecChars \o <<"a", "b", "c", "d", "e", "f">>
UpperHex == DecChars \o <<"A", "B", "C", "D", "E", "F">>

IsDigit(c) == Occurs(DecChars, c)
DigitValue(c) == IndexOf(DecChars, c) - 1

\* char::to_digit(16)
IsHexDigit(c) == Occurs(LowerHex, c) \/ Occurs(UpperHex, c)
HexDigitValue(c) ==
    IF Occurs(LowerHex, c) THEN IndexOf(LowerHex, c) - 1
    ELSE IndexOf(UpperHex, c) - 1

\* str::to_ascii_lowercase, one character
ToLower(c) ==
    LET i == CodePoint(c) IN
    IF i >= 65 /\ i <= 90 THEN Printable[i - 31 + 32] ELSE c

Lower(s) == [i \in 1..Len(s) |-> ToLower(s[i])]

DropFirst(s, n) == SubSeq(s, n + 1, Len(s))

(***************************************************************************)
(* u32::from_str_radix(s, 16): an optional '+', then one digit or more;    *)
(* the value is accumulated with checked_mul and checked_add, so a value   *)
(* of 2^32 or more is an Err, while leading zeros never overflow.          *)
(***************************************************************************)
U32(hi, lo) == [hi |-> hi, lo |-> lo]

\* checked_mul(16) then checked_add(d) on a u32
U32MulAdd(x, radix, d) ==
    LET low == x.lo * radix + d
        high == x.hi * radix + (low \div Limb)
    IN IF high >= Limb THEN None ELSE Some(U32(high, low % Limb))

RECURSIVE U32Accumulate(_, _, _)
U32Accumulate(acc, digits, radix) ==
    IF Len(digits) = 0 THEN Some(acc)
    ELSE IF ~IsHexDigit(digits[1]) THEN None
    ELSE LET step == U32MulAdd(acc, radix, HexDigitValue(digits[1]))
         IN IF step.some THEN U32Accumulate(step.v, Tail(digits), radix)
            ELSE None

from_str_radix(s, radix) ==
    LET digits == IF Len(s) > 0 /\ s[1] = "+" THEN Tail(s) ELSE s
    IN IF Len(digits) = 0 THEN None
       ELSE U32Accumulate(U32(0, 0), digits, radix)

\* fn parse_hex(s: &str) -> u32 { u32::from_str_radix(s, 16).unwrap() }
parse_hex(s) ==
    LET r == from_str_radix(s, 16)
    IN IF r.some THEN Ok(r.v) ELSE Panic

\* fn is_hex_literal(s: &str) -> bool
is_hex_literal(s) ==
    Len(s) > 2 /\ (SubSeq(s, 1, 2) = <<"0", "x">> \/ SubSeq(s, 1, 2) = <<"0", "X">>)

(***************************************************************************)
(* f64 values.  A finite value is its sign and its canonical decimal       *)
(* expansion: ip the digits before the point without leading zeros, fp     *)
(* the digits after it without trailing zeros.  Within the model's bounds  *)
(* (fewer than 16 significant digits) two texts round to the same double   *)
(* exactly when their canonical expansions agree.                          *)
(***************************************************************************)
NAN == [cls |-> "nan", neg |-> FALSE, ip |-> <<>>, fp |-> <<>>]
INFINITY == [cls |-> "inf", neg |-> FALSE, ip |-> <<>>, fp |-> <<>>]
NEG_INFINITY == [cls |-> "inf", neg |-> TRUE, ip |-> <<>>, fp |-> <<>>]

RECURSIVE StripLeadingZeros(_)
StripLeadingZeros(d) ==
    IF Len(d) > 0 /\ d[1] = 0 THEN StripLeadingZeros(Tail(d)) ELSE d

RECURSIVE StripTrailingZeros(_)
StripTrailingZeros(d) ==
    IF Len(d) > 0 /\ d[Len(d)] = 0
    THEN StripTrailingZeros(SubSeq(d, 1, Len(d) - 1)) ELSE d

Finite(neg, ip, fp) ==
    [cls |-> "fin", neg |-> neg,
     ip |-> StripLeadingZeros(ip), fp |-> StripTrailingZeros(fp)]

\* f64's PartialEq: NaN equals nothing, -0.0 equals 0.0
F64Eq(a, b) ==
    /\ a.cls # "nan" /\ b.cls # "nan"
    /\ a.cls = b.cls /\ a.ip = b.ip /\ a.fp = b.fp
    /\ (a.neg = b.neg \/ (a.cls = "fin" /\ a.ip = <<>> /\ a.fp = <<>>))

\* The decimal digits of a u32, most significant first (<<>> for 0).
RECURSIVE U32Digits(_)
U32Digits(x) ==
    IF x.hi = 0 /\ x.lo = 0 THEN <<>>
    ELSE LET mid == (x.hi % 10) * Limb + x.lo
         IN Append(U32Digits(U32(x.hi \div 10, mid \div 10)), mid % 10)

\* `u32 as f64`: exact, every u32 is a double
U32AsF64(x) == Finite(FALSE, U32Digits(x), <<>>)

AllDigits(s) == \A i \in 1..Len(s) : IsDigit(s[i])
DigitValues(s) == [i \in 1..Len(s) |-> DigitValue(s[i])]

\* The value of the decimal digits of a short exponent.
RECURSIVE SmallNat(_)
SmallNat(d) ==
    IF Len(d) = 0 THEN 0 ELSE SmallNat(SubSeq(d, 1, Len(d) - 1)) * 10 + d[Len(d)]

Zeros(n) == [i \in 1..n |-> 0]

\* ip.fp times 10^e
Scale(neg, ip, fp, e) ==
    IF e >= 0
    THEN LET f == fp \o Zeros(e) IN Finite(neg, ip \o SubSeq(f, 1, e), DropFirst(f, e))
    ELSE LET k == -e
             i == Zeros(k) \o ip
         IN Finite(neg, SubSeq(i, 1, Len(i) - k), DropFirst(i, Len(i) - k) \o fp)

\* The mantissa "digits [. digits]" with one digit at least, times 10^e.
ParseMantissa(neg, m, e) ==
    LET dots == {i \in 1..Len(m) : m[i] = "."}
        dot == IF dots = {} THEN Len(m) + 1 ELSE CHOOSE i \in dots : TRUE
        ip == SubSeq(m, 1, dot - 1)
        fp == DropFirst(m, dot)
    IN IF Cardinality(dots) > 1 \/ ~AllDigits(ip) \/ ~AllDigits(fp)
          \/ Len(ip) + Len(fp) = 0
       THEN None
       ELSE Some(Scale(neg, DigitValues(ip), DigitValues(fp), e))

\* <f64 as FromStr>::from_str (core::num::dec2flt)
ParseF64(s) ==
    LET signed == Len(s) > 0 /\ s[1] \in {"+", "-"}
        neg == signed /\ s[1] = "-"
        body == IF signed THEN Tail(s) ELSE s
        low == Lower(body)
        exps == {i \in 1..Len(low) : low[i] = "e"}
        at == IF exps = {} THEN Len(low) + 1 ELSE CHOOSE i \in exps : TRUE
        etxt == DropFirst(low, at)
        esigned == Len(etxt) > 0 /\ etxt[1] \in {"+", "-"}
        edig == IF esigned THEN Tail(etxt) ELSE etxt
        eabs == SmallNat(DigitValues(edig))
    IN IF low = <<"i", "n", "f">> \/ low = <<"i", "n", "f", "i", "n", "i", "t", "y">>
       THEN Some([cls |-> "inf", neg |-> neg, ip |-> <<>>, fp |-> <<>>])
       ELSE IF low = <<"n", "a", "n">> THEN Some(NAN)
       ELSE IF exps = {} THEN ParseMantissa(neg, low, 0)
       ELSE IF Cardinality(exps) > 1 \/ Len(edig) = 0 \/ ~AllDigits(edig) THEN None
       ELSE ParseMantissa(neg, SubSeq(low, 1, at - 1),
                          IF esigned /\ etxt[1] = "-" THEN -eabs ELSE eabs)

\* fn parse_number(pair: Pair<Rule>) -> f64, on the pair's text
parse_number(s) ==
    IF s = <<"I", "n", "f", "i", "n", "i", "t", "y">> THEN Ok(INFINITY)
    ELSE IF s = <<"-", "I", "n", "f", "i", "n", "i", "t", "y">> THEN Ok(NEG_INFINITY)
    ELSE IF s = <<"N", "a", "N">> \/ s = <<"-", "N", "a", "N">> THEN Ok(NAN)
    ELSE IF is_hex_literal(s)
         THEN LET h == parse_hex(DropFirst(s, 2))
              IN IF h.ok THEN Ok(U32AsF64(h.v)) ELSE Panic
    ELSE LET r == ParseF64(s) IN IF r.some THEN Ok(r.v) ELSE Panic

(***************************************************************************)
(* Narrowing casts `parse_number(pair) as iN / uN / f32`.  A cast of a     *)
(* value the target holds truncates toward zero.  Otherwise (NaN, an       *)
(* infinity, a magnitude out of range) a current compiler saturates (NaN   *)
(* gives 0) and an older one leaves the result undefined: both outcomes    *)
(* are kept, the undefined one as a value marked undef.                    *)
(***************************************************************************)
\* The integer targets; below and above are the decimal digits of the largest
\* magnitudes the type holds under and over zero (2^(bits-1) and 2^(bits-1) - 1
\* when signed, 0 and 2^bits - 1 when not).
IntTypes ==
    { [ty |-> "i8", signed |-> TRUE, bits |-> 8,
       below |-> <<1, 2, 8>>,
       above |-> <<1, 2, 7>>],
      [ty |-> "i16", signed |-> TRUE, bits |-> 16,
       below |-> <<3, 2, 7, 6, 8>>,
       above |-> <<3, 2, 7, 6, 7>>],
      [ty |-> "i32", signed |-> TRUE, bits |-> 32,
       below |-> <<2, 1, 4, 7, 4, 8, 3, 6, 4, 8>>,
       above |-> <<2, 1, 4, 7, 4, 8, 3, 6, 4, 7>>],
      [ty |-> "i64", signed |-> TRUE, bits |-> 64,
       below |-> <<9, 2, 2, 3, 3, 7, 2, 0, 3, 6, 8, 5, 4, 7, 7, 5, 8, 0, 8>>,
       above |-> <<9, 2, 2, 3, 3, 7, 2, 0, 3, 6, 8, 5, 4, 7, 7, 5, 8, 0, 7>>],
      [ty |-> "i128", signed |-> TRUE, bits |-> 128,
       below |-> <<1, 7, 0, 1, 4, 1, 1, 8, 3, 4, 6, 0, 4, 6, 9, 2, 3, 1, 7, 3, 1, 6, 8, 7, 3, 0, 3, 7, 1, 5, 8, 8, 4, 1, 0, 5, 7, 2, 8>>,
       above |-> <<1, 7, 0, 1, 4, 1, 1, 8, 3, 4, 6, 0, 4, 6, 9, 2, 3, 1, 7, 3, 1, 6, 8, 7, 3, 0, 3, 7, 1, 5, 8, 8, 4, 1, 0, 5, 7, 2, 7>>],
      [ty |-> "u8", signed |-> FALSE, bits |-> 8,
       below |-> <<>>,
       above |-> <<2, 5, 5>>],
      [ty |-> "u16", signed |-> FALSE, bits |-> 16,
       below |-> <<>>,
       above |-> <<6, 5, 5, 3, 5>>],
      [ty |-> "u32", signed |-> FALSE, bits |-> 32,
       below |-> <<>>,
       above |-> <<4, 2, 9, 4, 9, 6, 7, 2, 9, 5>>],
      [ty |-> "u64", signed |-> FALSE, bits |-> 64,
       below |-> <<>>,
       above |-> <<1, 8, 4, 4, 6, 7, 4, 4, 0, 7, 3, 7, 0, 9, 5, 5, 1, 6, 1, 5>>],
      [ty |-> "u128", signed |-> FALSE, bits |-> 128,
       below |-> <<>>,
       above |-> <<3, 4, 0, 2, 8, 2, 3, 6, 6, 9, 2, 0, 9, 3, 8, 4, 6, 3, 4, 6, 3, 3, 7, 4, 6, 0, 7, 4, 3, 1, 7, 6, 8, 2, 1, 1, 4, 5, 5>>] }

FloatTypes == {"f32", "f64"}

ScalarTypes == {t.ty : t \in IntTypes} \cup FloatTypes

RECURSIVE LexLE(_, _)
LexLE(a, b) ==
    Len(a) = 0 \/ a[1] < b[1] \/ (a[1] = b[1] /\ LexLE(Tail(a), Tail(b)))

\* a <= b for naturals given by their digits without leading zeros
DigitsLE(a, b) == Len(a) < Len(b) \/ (Len(a) = Len(b) /\ LexLE(a, b))

IntValue(ty, neg, mag) == [t |-> ty, v |-> [undef |-> FALSE, neg |-> neg, mag |-> mag]]
UndefValue(ty) == [t |-> ty, v |-> [undef |-> TRUE, neg |-> FALSE, mag |-> <<>>]]

IntLimit(it, neg) == IF neg THEN it.below ELSE it.above

\* The outcomes of `x as <integer type>`
CastInt(it, x) ==
    IF x.cls = "fin" /\ DigitsLE(x.ip, IntLimit(it, x.neg))
    THEN {IntValue(it.ty, x.neg /\ x.ip # <<>>, x.ip)}
    ELSE { IF x.cls = "nan" THEN IntValue(it.ty, FALSE, <<>>)
           ELSE IntValue(it.ty, x.neg /\ IntLimit(it, x.neg) # <<>>, IntLimit(it, x.neg)),
           UndefValue(it.ty) }

\* The outcomes of `x as ty` for the scalar type named ty; an f32 is kept
\* as the real it is nearest to.
Cast(ty, x) ==
    IF ty \in FloatTypes THEN {[t |-> ty, v |-> x]}
    ELSE CastInt(CHOOSE it \in IntTypes : it.ty = ty, x)

(***************************************************************************)
(* Parse-tree nodes (pest Pair): rule, as_str() and into_inner().          *)
(***************************************************************************)
Leaf(rule, str) == [rule |-> rule, str |-> str, inner |-> <<>>]

RECURSIVE Concat(_)
Concat(ss) == IF Len(ss) = 0 THEN <<>> ELSE Head(ss) \o Concat(Tail(ss))

\* The source text of one component of a string, as the grammar reads it.
ComponentSource(c) ==
    CASE c.rule = "char_literal" -> c.str
      [] c.rule = "hex_escape_sequence" -> <<"\\", "x">> \o c.str
      [] c.rule = "unicode_escape_sequence" -> <<"\\", "u">> \o c.str
      [] OTHER -> <<"\\">> \o c.str

StringNode(quote, comps) ==
    [rule |-> "string",
     str |-> <<quote>> \o Concat([i \in 1..Len(comps) |-> ComponentSource(comps[i])])
             \o <<quote>>,
     inner |-> comps]

IdentifierNode(chars) ==
    [rule |-> "identifier", str |-> chars,
     inner |-> [i \in 1..Len(chars) |-> Leaf("char_literal", <<chars[i]>>)]]

\* The texts of the nodes ss with the separators seps between them.
RECURSIVE Joined(_, _)
Joined(ss, seps) ==
    IF Len(ss) = 0 THEN <<>>
    ELSE IF Len(ss) = 1 THEN ss[1].str
    ELSE ss[1].str \o <<seps[1]>> \o Joined(Tail(ss), Tail(seps))

ArrayNode(kids) ==
    [rule |-> "array",
     str |-> <<"[">> \o Joined(kids, [i \in 1..Len(kids) |-> ","]) \o <<"]">>,
     inner |-> kids]

\* The children of an object are its keys and values, flat and alternating.
ObjectNode(kids) ==
    [rule |-> "object",
     str |-> <<"{">>
             \o Joined(kids, [i \in 1..Len(kids) |-> IF i % 2 = 1 THEN ":" ELSE ","])
             \o <<"}">>,
     inner |-> kids]

(***************************************************************************)
(* The string decoders.                                                    *)
(***************************************************************************)
\* fn parse_bool(pair: Pair<Rule>) -> bool
parse_bool(s) ==
    IF s = <<"t", "r", "u", "e">> THEN Ok(TRUE)
    ELSE IF s = <<"f", "a", "l", "s", "e">> THEN Ok(FALSE)
    ELSE Panic

\* fn parse_char_escape_sequence(pair: Pair<Rule>) -> String
parse_char_escape_sequence(s) ==
    CASE s = <<"b">> -> <<8>>
      [] s = <<"f">> -> <<12>>
      [] s = <<"n">> -> <<10>>
      [] s = <<"r">> -> <<13>>
      [] s = <<"t">> -> <<9>>
      [] s = <<"v">> -> <<11>>
      [] OTHER -> [i \in 1..Len(s) |-> CodePoint(s[i])]

\* char::from_u32: None for a surrogate and for a value above 0x10FFFF
char_from_u32(x) ==
    LET n == x.hi * Limb + x.lo
    IN IF x.hi > 16 \/ (n >= 55296 /\ n <= 57343) THEN None ELSE Some(n)

\* One component of parse_string's map closure.
parse_component(c) ==
    CASE c.rule = "char_literal" -> Ok([i \in 1..Len(c.str) |-> CodePoint(c.str[i])])
      [] c.rule = "char_escape_sequence" -> Ok(parse_char_escape_sequence(c.str))
      [] c.rule = "nul_escape_sequence" -> Ok(<<0>>)
      [] c.rule \in {"hex_escape_sequence", "unicode_escape_sequence"} ->
            LET h == parse_hex(c.str)
                ch == IF h.ok THEN char_from_u32(h.v) ELSE None
            IN IF ch.some THEN Ok(<<ch.v>>) ELSE Panic
      [] OTHER -> Panic

\* fn parse_string(pair: Pair<Rule>) -> String, on the pair's components
RECURSIVE parse_string(_)
parse_string(comps) ==
    IF Len(comps) = 0 THEN Ok(<<>>)
    ELSE LET first == parse_component(comps[1])
             rest == parse_string(Tail(comps))
         IN IF first.ok /\ rest.ok THEN Ok(first.v \o rest.v) ELSE Panic

(***************************************************************************)
(* The parse trees the model decodes.  The grammar engine is external: a   *)
(* tree is any tree the grammar can produce, here within the bounds.       *)
(***************************************************************************)
SeqsUpTo(S, n) == UNION {[1..k -> S] : k \in 0..n}

HexAlphabet == {"0", "F"}

HexTexts ==
    { <<"0", x>> \o d : x \in {"x", "X"},
                        d \in SeqsUpTo(HexAlphabet, MaxHexDigits) \ {<<>>} }
    \cup {<<"0", "x", "1", "a">>, <<"-", "0", "x", "F">>}

DecimalTexts ==
    { <<"0">>, <<"1">>, <<"1", "5">>, <<"-", "1">>, <<"+", "2">>, <<"-", "0">>,
      <<"3", "0", "0">>, <<"1", ".", "5">>, <<".", "5">>, <<"5", ".">>,
      <<"1", "e", "3">>, <<"2", "5", "E", "-", "1">>,
      <<"4", "2", "9", "4", "9", "6", "7", "2", "9", "5">>,
      <<"4", "2", "9", "4", "9", "6", "7", "2", "9", "6">>,
      <<"6", "8", "7", "1", "9", "4", "7", "6", "7", "3", "5">> }

SpecialTexts ==
    { <<"I", "n", "f", "i", "n", "i", "t", "y">>,
      <<"-", "I", "n", "f", "i", "n", "i", "t", "y">>,
      <<"+", "I", "n", "f", "i", "n", "i", "t", "y">>,
      <<"N", "a", "N">>, <<"-", "N", "a", "N">> }

NumberNodes == {Leaf("number", s) : s \in HexTexts \cup DecimalTexts \cup SpecialTexts}

StringComponents ==
    { Leaf("char_literal", <<"A">>),
      Leaf("char_escape_sequence", <<"n">>),
      Leaf("char_escape_sequence", <<"'">>),
      Leaf("nul_escape_sequence", <<"0">>),
      Leaf("hex_escape_sequence", <<"4", "1">>),
      Leaf("unicode_escape_sequence", <<"D", "7", "F", "F">>),
      Leaf("unicode_escape_sequence", <<"D", "8", "0", "0">>),
      Leaf("unicode_escape_sequence", <<"d", "f", "f", "f">>),
      Leaf("unicode_escape_sequence", <<"E", "0", "0", "0">>) }

StringNodes == {StringNode("'", c) : c \in SeqsUpTo(StringComponents, MaxComponents)}

Null == Leaf("null", <<"n", "u", "l", "l">>)
True == Leaf("boolean", <<"t", "r", "u", "e">>)
False == Leaf("boolean", <<"f", "a", "l", "s", "e">>)
One == Leaf("number", <<"1">>)

LeafTrees == {Null, True, False} \cup NumberNodes \cup StringNodes

\* [], [1], [1, 1], ...
InnerArrays == {ArrayNode([i \in 1..k |-> One]) : k \in 0..MaxChildren}

InnerObject == ObjectNode(<<IdentifierNode(<<"a">>), One>>)

BadString == StringNode("'", <<Leaf("unicode_escape_sequence", <<"D", "8", "0", "0">>)>>)

\* Arrays of numbers and of arrays of numbers.
ArrayTrees == {ArrayNode(k) : k \in SeqsUpTo({One} \cup InnerArrays, MaxChildren)}

\* A key and its value.
FirstMembers ==
    { <<IdentifierNode(<<"B">>), One>>,
      <<IdentifierNode(<<"C">>), ArrayNode(<<One, One>>)>>,
      <<IdentifierNode(<<"D">>), InnerObject>>,
      <<IdentifierNode(<<"I", "n", "f", "i", "n", "i", "t", "y">>), Null>>,
      <<BadString, One>> }

LaterMembers ==
    { <<IdentifierNode(<<"B">>), One>>,
      <<StringNode("'", <<Leaf("char_literal", <<"A">>)>>), True>> }

ObjectTrees ==
    {ObjectNode(<<>>)}
    \cup { ObjectNode(m \o Concat(l)) :
             m \in FirstMembers, l \in SeqsUpTo(LaterMembers, MaxChildren - 1) }

Trees == LeafTrees \cup ArrayTrees \cup ObjectTrees

(***************************************************************************)
(* A node is named by its path from the root.                              *)
(***************************************************************************)
RECURSIVE NodeAt(_, _)
NodeAt(n, p) == IF Len(p) = 0 THEN n ELSE NodeAt(n.inner[Head(p)], Tail(p))

as_rule(p) == NodeAt(tree, p).rule
as_str(p) == NodeAt(tree, p).str
Components(p) == NodeAt(tree, p).inner

\* Pair::into_inner: the children, in source order
into_inner(p) == [i \in 1..Len(NodeAt(tree, p).inner) |-> Append(p, i)]

\* A Pairs::next that yields the children from the back.
PairsNextBack(pairs) ==
    IF Len(pairs) = 0 THEN [item |-> None, rest |-> pairs]
    ELSE [item |-> Some(pairs[Len(pairs)]), rest |-> SubSeq(pairs, 1, Len(pairs) - 1)]

\* Pairs::next
PairsNext(pairs) ==
    IF Len(pairs) = 0 THEN [item |-> None, rest |-> pairs]
    ELSE [item |-> Some(Head(pairs)), rest |-> Tail(pairs)]

\* A take that reads the slot and leaves it full.
take_keeps(slot) == slot

\* Option::take: what is left in the slot
take(slot) == None

(***************************************************************************)
(* The objects of the engine.  src, given, pending and misused are history *)
(* fields: the node an adapter was made from, the children it has handed   *)
(* out, whether a key awaits its value, whether next_value_seed was ever   *)
(* called without one.                                                     *)
(***************************************************************************)
\* Json5Deserializer { pair }
Cursor(slot) == [obj |-> "de", pair |-> slot]
\* Seq { pairs }
SeqFrame(p) == [obj |-> "seq", pairs |-> into_inner(p), src |-> p, given |-> <<>>]
\* Map { pairs }
MapFrame(p) ==
    [obj |-> "map", pairs |-> into_inner(p), src |-> p, given |-> <<>>,
     pending |-> FALSE, misused |-> FALSE]
\* Enum { pair }
EnumFrame(p) == [obj |-> "enum", pair |-> p]
\* Variant { pair }
VariantFrame(slot) == [obj |-> "variant", pair |-> slot]

Value(t, v) == [t |-> t, v |-> v]
Unit == Value("unit", <<>>)
Err(e) == Value("err", e)
Aborted == Value("panic", <<>>)

Top == stack[Len(stack)]
Below == SubSeq(stack, 1, Len(stack) - 1)
Running == ~fault /\ Len(stack) > 0

\* The last operation: its name, the node it took or handed out, whether what
\* it unwraps was there (for next_value_seed: whether a key was pending), and
\* the position in the stack of the object it was called on.
Called(op, node, had) ==
    [op |-> op, node |-> node, had |-> had, at |-> Len(stack)]

(***************************************************************************)
(* Json5Deserializer: the decode operations of a cursor.                   *)
(***************************************************************************)
\* The visitor method deserialize_any selects for the node at p.
AnyVisit(p) ==
    CASE as_rule(p) = "null" -> Ok(Unit)
      [] as_rule(p) = "boolean" ->
            LET b == parse_bool(as_str(p))
            IN IF b.ok THEN Ok(Value("bool", b.v)) ELSE Panic
      [] as_rule(p) \in {"string", "identifier"} ->
            LET t == parse_string(Components(p))
            IN IF t.ok THEN Ok(Value("string", t.v)) ELSE Panic
      [] as_rule(p) = "number" ->
            LET n == parse_number(as_str(p))
            IN IF n.ok THEN Ok(Value("f64", n.v)) ELSE Panic
      [] as_rule(p) = "array" -> Ok(Value("seq", <<>>))
      [] as_rule(p) = "object" -> Ok(Value("map", <<>>))
      [] OTHER -> Panic

\* The adapter deserialize_any hands to the visitor.
AnyFrames(p) ==
    CASE as_rule(p) = "array" -> <<SeqFrame(p)>>
      [] as_rule(p) = "object" -> <<MapFrame(p)>>
      [] OTHER -> <<>>

\* A decode operation of the cursor on top: `self.pair.take().unwrap()`, then
\* the result r (a value or a panic) with the adapters it pushes.
Decode(op, r, frames, counts) ==
    LET had == Top.pair.some
    IN /\ call' = Called(op, Top.pair, had)
       /\ fault' = (~had \/ ~r.ok)
       /\ ret' = IF had /\ r.ok THEN r.v ELSE Aborted
       /\ stack' = IF ~had THEN stack
                   ELSE Append(Below, Cursor(take(Top.pair)))
                        \o (IF r.ok THEN frames ELSE <<>>)
       /\ decoded' = IF had /\ counts THEN Top.pair ELSE decoded
       /\ UNCHANGED tree

\* The node in the slot (the root when the slot is empty: then unused).
Held == IF Top.pair.some THEN Top.pair.v ELSE <<>>

deserialize_any ==
    /\ Running /\ Top.obj = "de"
    /\ Decode("deserialize_any", AnyVisit(Held), AnyFrames(Held), TRUE)

ForwardedShapes ==
    { "bool", "char", "str", "string", "bytes", "byte_buf", "option", "unit",
      "unit_struct", "newtype_struct", "seq", "tuple", "tuple_struct", "map",
      "struct", "identifier", "ignored_any" }

\* forward_to_deserialize_any! { bool char str ... }: each of these shapes
\* runs deserialize_any, whatever the shape
forward_to_deserialize_any ==
    /\ Running /\ Top.obj = "de"
    /\ ForwardedShapes # {}
    /\ Decode("forward_to_deserialize_any", AnyVisit(Held), AnyFrames(Held), TRUE)

\* The outcomes of visitor.visit_T(parse_number(pair) as T) on the text s.
ScalarVisit(s, ty) ==
    LET n == parse_number(s)
    IN IF n.ok THEN {Ok(v) : v \in Cast(ty, n.v)} ELSE {Panic}

\* deserialize_i8 .. deserialize_f64
deserialize_scalar ==
    /\ Running /\ Top.obj = "de"
    /\ IF Top.pair.some
       THEN \E ty \in ScalarTypes :
               \E r \in ScalarVisit(as_str(Held), ty) :
                  Decode("deserialize_scalar", r, <<>>, TRUE)
       ELSE Decode("deserialize_scalar", Panic, <<>>, TRUE)

\* visitor.visit_enum(Enum { pair: self.pair.take().unwrap() }): the node is
\* handed on to the Enum adapter, its content is not decoded yet
deserialize_enum ==
    /\ Running /\ Top.obj = "de"
    /\ Decode("deserialize_enum", Ok(Value("enum", <<>>)),
              <<EnumFrame(Held)>>, FALSE)

(***************************************************************************)
(* Seq and Map: the adapters over the children of an array, an object.     *)
(***************************************************************************)
\* What an adapter does with the next child: a cursor on it for the seed.
Advance(op, n, frame, had) ==
    /\ stack' = IF n.item.some
                THEN Append(Below, [frame EXCEPT !.pairs = n.rest,
                                                 !.given = Append(@, n.item.v)])
                     \o <<Cursor(n.item)>>
                ELSE Append(Below, frame)
    /\ call' = Called(op, n.item, had)
    /\ UNCHANGED <<tree, decoded>>

\* Seq::next_element_seed
next_element_seed ==
    /\ Running /\ Top.obj = "seq"
    /\ LET n == PairsNext(Top.pairs)
       IN /\ Advance("next_element_seed", n, Top, n.item.some)
          /\ ret' = IF n.item.some THEN Value("cursor", <<>>) ELSE Value("none", <<>>)
          /\ UNCHANGED fault

\* Map::next_key_seed
next_key_seed ==
    /\ Running /\ Top.obj = "map"
    /\ LET n == PairsNext(Top.pairs)
       IN /\ Advance("next_key_seed", n,
                     [Top EXCEPT !.pending = n.item.some,
                                 !.misused = @ \/ Top.pending],
                     n.item.some)
          /\ ret' = IF n.item.some THEN Value("cursor", <<>>) ELSE Value("none", <<>>)
          /\ UNCHANGED fault

\* A next_value_seed that panics when no key is pending.
next_value_seed_guarded ==
    /\ Running /\ Top.obj = "map"
    /\ LET n == IF Top.pending THEN PairsNext(Top.pairs)
                ELSE [item |-> None, rest |-> Top.pairs]
       IN /\ Advance("next_value_seed", n,
                     [Top EXCEPT !.pending = FALSE,
                                 !.misused = @ \/ ~Top.pending],
                     Top.pending)
          /\ ret' = IF n.item.some THEN Value("cursor", <<>>) ELSE Aborted
          /\ fault' = ~n.item.some

\* Map::next_value_seed: `self.pairs.next().unwrap()`
next_value_seed ==
    /\ Running /\ Top.obj = "map"
    /\ LET n == PairsNext(Top.pairs)
       IN /\ Advance("next_value_seed", n,
                     [Top EXCEPT !.pending = FALSE,
                                 !.misused = @ \/ ~Top.pending],
                     Top.pending)
          /\ ret' = IF n.item.some THEN Value("cursor", <<>>) ELSE Aborted
          /\ fault' = ~n.item.some

(***************************************************************************)
(* Enum and Variant.                                                       *)
(***************************************************************************)
\* Enum::variant_seed on the node at p.  The seed decodes the tag through
\* deserialize_identifier, which forwards to deserialize_any.
VariantSeed(p) ==
    CASE as_rule(p) = "string" ->
            [tagged |-> Some(p), variant |-> None]
      [] as_rule(p) = "object" ->
            LET first == PairsNext(into_inner(p))
            IN [tagged |-> first.item, variant |-> PairsNext(first.rest).item]
      [] OTHER -> [tagged |-> None, variant |-> None]

variant_seed ==
    /\ Running /\ Top.obj = "enum"
    /\ LET vs == VariantSeed(Top.pair)
           tag == IF vs.tagged.some THEN AnyVisit(vs.tagged.v) ELSE Panic
       IN /\ call' = Called("variant_seed", Some(Top.pair), vs.tagged.some)
          /\ fault' = (vs.tagged.some /\ ~tag.ok)
          /\ ret' = IF ~vs.tagged.some THEN Err("NotAnEnum")
                    ELSE IF tag.ok THEN Value("variant", tag.v)
                    ELSE Aborted
          /\ stack' = IF vs.tagged.some /\ tag.ok
                      THEN Append(Below, VariantFrame(vs.variant))
                      ELSE Below
          /\ decoded' = IF vs.tagged.some THEN vs.tagged ELSE decoded
          /\ UNCHANGED tree

\* Variant::unit_variant
unit_variant ==
    /\ Running /\ Top.obj = "variant"
    /\ call' = Called("unit_variant", Top.pair, TRUE)
    /\ ret' = Unit
    /\ stack' = Below
    /\ UNCHANGED <<tree, fault, decoded>>

\* What a payload request does with the Variant on top: `self.pair.unwrap()`,
\* then the frames the payload is decoded through, or the error e.
Payload(op, frames, e) ==
    LET had == Top.pair.some
    IN /\ call' = Called(op, Top.pair, had)
       /\ fault' = ~had
       /\ ret' = IF ~had THEN Aborted
                 ELSE IF Len(frames) = 0 THEN Err(e)
                 ELSE Value(frames[1].obj, <<>>)
       /\ stack' = IF had THEN Below \o frames ELSE stack
       /\ UNCHANGED <<tree, decoded>>

\* Variant::newtype_variant_seed
newtype_variant_seed ==
    /\ Running /\ Top.obj = "variant"
    /\ Payload("newtype_variant_seed", <<Cursor(Top.pair)>>, "")

\* A tuple_variant that does not look at the kind of the payload.
TupleFramesUnchecked(p) == <<SeqFrame(p)>>

\* The frames of Variant::tuple_variant for the payload node at p.
TupleFrames(p) == IF as_rule(p) = "array" THEN <<SeqFrame(p)>> ELSE <<>>

tuple_variant ==
    /\ Running /\ Top.obj = "variant"
    /\ Payload("tuple_variant", TupleFrames(Held), "NotATuple")

\* The frames of Variant::struct_variant for the payload node at p.
StructFrames(p) == IF as_rule(p) = "object" THEN <<MapFrame(p)>> ELSE <<>>

struct_variant ==
    /\ Running /\ Top.obj = "variant"
    /\ Payload("struct_variant", StructFrames(Held), "NotAStruct")

(***************************************************************************)
(* The caller: a visitor or seed returns, and the object it was handed is  *)
(* dropped.                                                                *)
(***************************************************************************)
Return ==
    /\ Running
    /\ stack' = Below
    /\ call' = Called("return", None, TRUE)
    /\ ret' = Value("returned", <<>>)
    /\ UNCHANGED <<tree, fault, decoded>>

(***************************************************************************)
(* Json5Deserializer::from_str on a parsed input: one cursor on the root.  *)
(***************************************************************************)
Init ==
    /\ tree \in Trees
    /\ stack = <<Cursor(Some(<<>>))>>
    /\ ret = Value("init", <<>>)
    /\ fault = FALSE
    /\ call = [op |-> "from_str", node |-> None, had |-> TRUE, at |-> 0]
    /\ decoded = None

Next ==
    \/ deserialize_any
    \/ forward_to_deserialize_any
    \/ deserialize_scalar
    \/ deserialize_enum
    \/ next_element_seed
    \/ next_key_seed
    \/ next_value_seed
    \/ variant_seed
    \/ unit_variant
    \/ newtype_variant_seed
    \/ tuple_variant
    \/ struct_variant
    \/ Return

Spec == Init /\ [][Next]_vars

(***************************************************************************)
(* The claims.                                                             *)
(***************************************************************************)
DecodeAnyOps == {"deserialize_any", "forward_to_deserialize_any"}
CursorOps == DecodeAnyOps \cup {"deserialize_scalar", "deserialize_enum"}
PayloadOps == {"newtype_variant_seed", "tuple_variant", "struct_variant"}

\* The object the last operation was called on, as it is now.
Subject == stack[call.at]

\* The last operation took or handed out a node.
Acted(ops) == call.op \in ops /\ call.node.some

\* The last operation returned the error e.
Failed(e) == ret.t = "err" /\ ret.v = e

\* The text a string or identifier node decodes to.
DecodedText(p) == parse_string(Components(p)).v

\* The last operation returned a variant with the tag text s.
Tagged(s) == ret.t = "variant" /\ ret.v.t = "string" /\ ret.v.v = s

\* C1: an inferred decode, and a decode of any forwarded shape, selects its
\* result form from the node kind alone: null gives the unit value, boolean a
\* bool, string or identifier a string, number a floating-point value, array a
\* Seq over the node's children, object a Map over the node's children.
C1_AnyDispatchByKind ==
    Acted(DecodeAnyOps) =>
        LET p == call.node.v
            k == as_rule(p)
        IN /\ ~fault
           /\ k = "null" => ret.t = "unit"
           /\ k = "boolean" => ret.t = "bool"
           /\ k \in {"string", "identifier"} => ret.t = "string"
           /\ k = "number" => ret.t = "f64"
           /\ k = "array" => ret.t = "seq" /\ Top = SeqFrame(p)
           /\ k = "object" => ret.t = "map" /\ Top = MapFrame(p)

\* C2: variant resolution is total over node kinds: a string node gives its
\* decoded text as the tag and holds no payload; an object with a member gives
\* the decoded first key as the tag and the first value as the payload; an
\* object without members and every other kind give the error NotAnEnum.
C2_VariantResolutionTotal ==
    call.op = "variant_seed" =>
        LET p == call.node.v
            kids == into_inner(p)
        IN /\ ~fault
           /\ as_rule(p) = "string" =>
                 /\ Tagged(DecodedText(p))
                 /\ Top = VariantFrame(None)
           /\ (as_rule(p) = "object" /\ Len(kids) > 0) =>
                 /\ Tagged(DecodedText(kids[1]))
                 /\ Top = VariantFrame(Some(kids[2]))
           /\ (as_rule(p) \notin {"string", "object"}
               \/ (as_rule(p) = "object" /\ Len(kids) = 0)) =>
                 Failed("NotAnEnum")

\* C3: a decode requested as a scalar width of a node that is not a number
\* returns the error UnexpectedNodeKind: no value, no fatal fault.
C3_ScalarOfNonNumberIsError ==
    (Acted({"deserialize_scalar"}) /\ as_rule(call.node.v) # "number") =>
        ~fault /\ Failed("UnexpectedNodeKind")

\* C4: after a variant resolved from the bare form, which holds no payload
\* node, every payload request returns the error MissingPayload, not a fault.
C4_BarePayloadIsError ==
    (call.op \in PayloadOps /\ ~call.had) =>
        ~fault /\ Failed("MissingPayload")

\* C5: with a payload node held, tuple_variant gives NotATuple unless the node
\* is an array, and then a Seq over its children; struct_variant gives
\* NotAStruct unless the node is an object, and then a Map over its children.
C5_PayloadKindChecked ==
    /\ Acted({"tuple_variant"}) =>
          /\ ~fault
          /\ IF as_rule(call.node.v) = "array"
             THEN ret.t = "seq" /\ Top = SeqFrame(call.node.v)
             ELSE Failed("NotATuple") /\ Len(stack) = call.at - 1
    /\ Acted({"struct_variant"}) =>
          /\ ~fault
          /\ IF as_rule(call.node.v) = "object"
             THEN ret.t = "map" /\ Top = MapFrame(call.node.v)
             ELSE Failed("NotAStruct") /\ Len(stack) = call.at - 1

C5_Witness ==
    /\ Acted({"tuple_variant"})
    /\ as_rule(call.node.v) = "array"
    /\ Top.obj = "seq" /\ Len(Top.pairs) = 2

\* The number a run of hexadecimal digits denotes (short runs only).
RECURSIVE HexNumber(_)
HexNumber(s) ==
    IF Len(s) = 0 THEN 0
    ELSE 16 * HexNumber(SubSeq(s, 1, Len(s) - 1)) + HexDigitValue(s[Len(s)])

IsScalarValue(n) == n <= 1114111 /\ ~(n >= 55296 /\ n <= 57343)

IsCodepointEscape(c) == c.rule \in {"hex_escape_sequence", "unicode_escape_sequence"}

\* C6: decoding a string with a hex or unicode escape whose number is not a
\* Unicode scalar value returns the error InvalidCodepoint; an escape whose
\* number is one contributes exactly that character.
C6_InvalidCodepointIsError ==
    (Acted(DecodeAnyOps) /\ as_rule(call.node.v) = "string") =>
        LET comps == Components(call.node.v)
        IN IF \E i \in 1..Len(comps) :
                 IsCodepointEscape(comps[i]) /\ ~IsScalarValue(HexNumber(comps[i].str))
           THEN ~fault /\ Failed("InvalidCodepoint")
           ELSE /\ ret.t = "string"
                /\ Len(ret.v) = Len(comps)
                /\ \A i \in 1..Len(comps) :
                      IsCodepointEscape(comps[i]) => ret.v[i] = HexNumber(comps[i].str)

\* d times m plus carry, on the decimal digits of a natural number
RECURSIVE DigitsMulAdd(_, _, _)
DigitsMulAdd(d, m, carry) ==
    IF Len(d) = 0
    THEN (IF carry = 0 THEN <<>>
          ELSE Append(DigitsMulAdd(<<>>, m, carry \div 10), carry % 10))
    ELSE LET x == d[Len(d)] * m + carry
         IN Append(DigitsMulAdd(SubSeq(d, 1, Len(d) - 1), m, x \div 10), x % 10)

\* The decimal digits of the number a run of hexadecimal digits denotes.
RECURSIVE HexAsDecimal(_)
HexAsDecimal(s) ==
    IF Len(s) = 0 THEN <<>>
    ELSE StripLeadingZeros(
            DigitsMulAdd(HexAsDecimal(SubSeq(s, 1, Len(s) - 1)), 16,
                         HexDigitValue(s[Len(s)])))

\* The decimal literal of a natural number given by its digits.
DecimalLiteral(d) ==
    IF Len(d) = 0 THEN <<"0">> ELSE [i \in 1..Len(d) |-> DecChars[d[i] + 1]]

\* C7: a number text that starts with 0x or 0X and is longer than 2, however
\* many digits it has, decodes to the value of the decimal literal of the
\* same number, without a fault.
C7_HexEqualsDecimal ==
    (/\ Acted(DecodeAnyOps)
     /\ as_rule(call.node.v) = "number"
     /\ Len(as_str(call.node.v)) > 2
     /\ SubSeq(as_str(call.node.v), 1, 2) \in {<<"0", "x">>, <<"0", "X">>}) =>
        /\ ~fault
        /\ ret.t = "f64"
        /\ F64Eq(ret.v,
                 parse_number(DecimalLiteral(HexAsDecimal(
                     DropFirst(as_str(call.node.v), 2)))).v)

\* The children a Seq was made over: those handed out, in source order,
\* then those left.
InSourceOrder(f) ==
    LET kids == into_inner(f.src)
        k == Len(f.given)
    IN /\ k <= Len(kids)
       /\ f.given = SubSeq(kids, 1, k)
       /\ f.pairs = SubSeq(kids, k + 1, Len(kids))

\* C8: the i-th next_element_seed call of a Seq over children c1..cn decodes
\* exactly ci, in source order, none skipped or repeated; every call after the
\* n-th returns exhausted and decodes nothing; so for nested and empty arrays.
C8_SeqSourceOrder ==
    /\ \A i \in 1..Len(stack) : stack[i].obj = "seq" => InSourceOrder(stack[i])
    /\ call.op = "next_element_seed" =>
          IF call.node.some
          THEN /\ Len(stack) = call.at + 1
               /\ Top = Cursor(call.node)
               /\ call.node.v = Append(Subject.src, Len(Subject.given))
          ELSE /\ Len(stack) = call.at
               /\ ret.t = "none"
               /\ Subject.given = into_inner(Subject.src)

\* The second child of an inner array has been handed out, and a further call
\* found the inner array exhausted.
C8_Witness ==
    /\ call.op = "next_element_seed" /\ ~call.node.some
    /\ Len(Subject.src) = 1 /\ Len(Subject.given) = 2
    /\ \E i \in 1..Len(stack) : stack[i].obj = "seq" /\ stack[i].src = <<>>

\* The node at p is a value of its object (its keys are the odd children).
IsValue(p) == p[Len(p)] % 2 = 0

\* C9 as stated: a next_value_seed call with no pending key, and a second call
\* for the same key, end in a fatal fault; no key is decoded as a value.
C9_NextValueNeedsKey ==
    call.op = "next_value_seed" =>
        /\ ~call.had => fault
        /\ call.node.some => IsValue(call.node.v)

\* C9 as amended: a next_value_seed call ends in a fatal fault exactly when no
\* unconsumed child is left; otherwise it decodes the next unconsumed child,
\* key or value; it decodes the value of the key just handed out whenever the
\* calls on the Map so far alternated, a successful next_key_seed first.
C9_NextValueTakesNextChild ==
    call.op = "next_value_seed" =>
        LET f == Subject
            kids == into_inner(f.src)
        IN /\ fault = ~call.node.some
           /\ f.given = SubSeq(kids, 1, Len(f.given))
           /\ IF call.node.some
              THEN /\ Top = Cursor(call.node)
                   /\ call.node.v = kids[Len(f.given)]
              ELSE f.given = kids
           /\ ~f.misused => call.node.some /\ IsValue(call.node.v)

\* A next_value_seed call with no pending key has decoded a key as a value.
C9_Witness ==
    /\ call.op = "next_value_seed" /\ ~call.had
    /\ call.node.some /\ ~IsValue(call.node.v)
    /\ ~fault

\* a comes before b in the source (pre-order of the tree)
RECURSIVE DocLess(_, _)
DocLess(a, b) ==
    IF Len(a) = 0 THEN Len(b) > 0
    ELSE IF Len(b) = 0 THEN FALSE
    ELSE IF a[1] = b[1] THEN DocLess(Tail(a), Tail(b))
    ELSE a[1] < b[1]

\* One step of a cursor's decode operation, or of the tag decode of
\* variant_seed.
TakeOnceStep ==
    /\ call'.op \in CursorOps =>
          /\ stack'[call'.at] = Cursor(None)
          /\ ~call'.had => fault' /\ ret'.t = "panic"
          /\ (call'.had /\ call'.op # "deserialize_enum") =>
                /\ decoded' = call'.node
                /\ decoded.some => DocLess(decoded.v, decoded'.v)
    /\ (call'.op = "variant_seed" /\ call'.had) =>
          /\ decoded'.some
          /\ decoded.some => DocLess(decoded.v, decoded'.v)

\* C10: every decode operation of a cursor empties the slot before it produces
\* its result, on success and on error alike; so the content of a node is
\* decoded at most once (each decode takes a node later in the source than the
\* one before), and a second request on a cursor is a fatal fault, not a value.
C10_TakeOnce == [][TakeOnceStep]_vars

\* A second decode request on a cursor has ended in a fault.
C10_Witness ==
    /\ call.op \in CursorOps /\ ~call.had
    /\ fault /\ decoded.some

=============================================================================
